---- MODULE Spec2Model ----
(***************************************************************************)
(* amptec-scraper: the link-discovery crawlers of crawl.py.                *)
(*                                                                         *)
(*   QueueSpec / FairQueueSpec  the queue-based crawl (crawl.py 269-310):  *)
(*       a coordinator and `concurrency` asyncio workers over one Queue.   *)
(*   BeeSpec                    crawl_with_scrapingbee (crawl.py 12-125):  *)
(*       the sequential crawl with the three-attempt retry loop.           *)
(*   EitherSpec                 a run of one of the two crawls.            *)
(*   FetchHtmlSpec              fetch_html_with_scrapingbee (main.py       *)
(*       16-58): the retry loop of the product-page fetch.                 *)
(*   ClassifySpec               the two product-URL classifiers applied    *)
(*       to a URL and a keyword list.                                      *)
(*                                                                         *)
(* Text (hosts, paths, keywords) is a sequence of one-character strings.   *)
(* A step of a worker runs from one await that can hand control to another *)
(* task to the next: `await to_visit.get()` and `await fetch(...)`.  A put *)
(* on the unbounded Queue never waits, and the Semaphore has a slot for    *)
(* every worker, so neither is a point where another task runs.  Any       *)
(* worker at get() may be the one that takes the next item.                *)
(***************************************************************************)
EXTENDS Integers, Sequences, FiniteSets, TLC

(***************************************************************************)
(* Bounds of the model.                                                    *)
(***************************************************************************)
MaxConcurrency == 2
MaxPagesBound == 4
MaxRetriesBound == 3

(***************************************************************************)
(* URLs and text.                                                          *)
(***************************************************************************)
Shop == <<"s", "h", "o", "p">>
Othr == <<"o", "t", "h", "r">>
Scheme == <<"h", "t", "t", "p", "s", ":", "/", "/">>
RootPath == <<"/">>
ProdPath == <<"/", "p", "r", "o", "d">>
AboutPath == <<"/", "a", "b">>
NoText == <<>>

MkUrl(netloc, path) == [netloc |-> netloc, path |-> path, query |-> NoText]

ShopRoot == MkUrl(Shop, RootPath)
ShopProd == MkUrl(Shop, ProdPath)
ShopAbout == MkUrl(Shop, AboutPath)
OthrProd == MkUrl(Othr, ProdPath)

\* The crawl's arguments other than base_url, max_pages and concurrency.
allowed_domains == {Shop}
keywords == {<<"p", "r", "o", "d">>}

\* The seeds a run is started with.
Seeds == {ShopRoot, ShopProd, OthrProd}

\* href attributes of anchors: a relative href has an empty netloc.
Hrefs == {MkUrl(NoText, RootPath), MkUrl(NoText, ProdPath),
          MkUrl(NoText, AboutPath), OthrProd, ShopProd}

\* Python's `k in s` on strings.
IsSubstring(k, s) ==
    \E i \in 0..(Len(s) - Len(k)) : SubSeq(s, i + 1, i + Len(k)) = k

LowerChar(c) ==
    CASE c = "P" -> "p"
      [] c = "R" -> "r"
      [] c = "O" -> "o"
      [] c = "D" -> "d"
      [] OTHER -> c

\* str.lower()
Lower(s) == [i \in 1..Len(s) |-> LowerChar(s[i])]

\* The URL as the string the code holds.
UrlText(u) == Scheme \o u.netloc \o u.path \o u.query

\* The directory part of a path: up to and including its last "/".
DirOf(path) ==
    LET slashes == {i \in 1..Len(path) : path[i] = "/"}
    IN IF slashes = {} THEN RootPath
       ELSE SubSeq(path, 1, CHOOSE i \in slashes : \A j \in slashes : j <= i)

\* utils.canonical_url: the href resolved against base, as an absolute URL.
canonical_url(base, href) ==
    IF href.netloc # NoText THEN href
    ELSE IF href.path # NoText /\ href.path[1] = "/"
         THEN [netloc |-> base.netloc, path |-> href.path, query |-> href.query]
         ELSE [netloc |-> base.netloc, path |-> DirOf(base.path) \o href.path,
               query |-> href.query]

\* utils.is_same_domain: the URL's host equals or contains an allowed domain.
is_same_domain(url, domains) ==
    \E d \in domains : IsSubstring(d, url.netloc)

\* crawl.py _extract_links: every anchor's href resolved against base_url.
_extract_links(base, html) == {canonical_url(base, h) : h \in html}

\* crawl.py _looks_like_product_url: a keyword occurs in the lower-cased path.
_looks_like_product_url(url, kws) ==
    \E k \in kws : IsSubstring(k, Lower(url.path))

\* crawl.py _is_product_url: a keyword occurs in the lower-cased URL.
_is_product_url(url, kws) ==
    \E k \in kws : IsSubstring(k, Lower(UrlText(url)))

\* The URLs and keyword lists the classifiers are applied to: the keyword in
\* the host, in the path (in lower and in upper case), in the query, nowhere.
Prod == <<"p", "r", "o", "d">>
UpperProd == <<"P", "R", "O", "D">>
UpperProdPath == <<"/", "P", "R", "O", "D">>
ProdQuery == <<"?", "p", "r", "o", "d">>
ClassifyUrls ==
    [netloc : {Shop, Prod}, path : {RootPath, ProdPath, UpperProdPath, AboutPath},
     query : {NoText, ProdQuery}]
ClassifyKeywords == {Prod, UpperProd, <<"a", "b">>}

\* Every URL a run can hold.
Universe == Seeds \cup {canonical_url(b, h) : b \in Seeds \cup {ShopProd, ShopAbout}, h \in Hrefs}

\* The orders in which a set can be iterated.
OrdersOf(S) ==
    {s \in [1..Cardinality(S) -> S] : \A i, j \in 1..Cardinality(S) : i # j => s[i] # s[j]}

(***************************************************************************)
(* State.                                                                  *)
(***************************************************************************)
VARIABLES
    base_url,            \* argument of the run
    max_pages,           \* argument of the run
    concurrency,         \* argument of the queue-based crawl
    run,                 \* the function the run is a call of
    \* the queue-based crawl
    mainPc,              \* coordinator: "init", "join", "returned"
    seen,                \* crawl.py 270
    to_visit,            \* the asyncio.Queue's items, crawl.py 271
    unfinished,          \* the Queue's count of items put and not yet task_done
    product_candidates,  \* crawl.py 273
    sem,                 \* free slots of the Semaphore, crawl.py 276
    wpc,                 \* worker -> "none", "get", "fetch", "done", "cancelled"
    wurl,                \* worker -> the URL it is fetching
    fetchCount,          \* history: URL -> number of calls of fetch
    extracted,           \* history: links extracted from fetched pages
    dups,                \* history: URLs taken from the queue when already seen
    result,              \* the returned list, as a set
    \* crawl_with_scrapingbee
    beePc,               \* "loop", "attempt", "after", "done"
    visited,             \* crawl.py 21
    bee_to_visit,        \* to_visit, crawl.py 22
    product_urls,        \* crawl.py 23
    bee_url,             \* url, the URL popped at crawl.py 27
    attempt,             \* crawl.py 38
    response,            \* crawl.py 36 and 54
    gets,                \* history: number of calls of scrapingbee_client.get
    beeFetched,          \* history: URLs passed to scrapingbee_client.get
    outcomes,            \* history: outcomes of the calls of get for bee_url
    waits,               \* history: backoff sleeps of the retry loop for bee_url
    beeExtracted,        \* history: links extracted from fetched pages
    extractedPages,      \* history: pages whose links were extracted
    beeExtractCalls,     \* history: <<base, page>> of each call of _extract_links
    beeResult,           \* the returned list, as a set
    \* fetch_html_with_scrapingbee
    fh_pc,               \* "attempt", "returned", "raised", "none_returned"
    fh_max_retries,      \* argument max_retries, main.py 16
    fh_attempt,          \* main.py 18
    fh_outcomes,         \* history: outcomes of the calls of client.get
    fh_waits,            \* history: the sleeps between attempts
    fh_result,           \* the returned body
    \* the classifiers
    cl_pc,               \* "input", "done"
    cl_url,              \* argument url
    cl_keywords,         \* argument keywords
    cl_is_product,       \* what _is_product_url returned
    cl_looks_like        \* what _looks_like_product_url returned

qvars == <<mainPc, seen, to_visit, unfinished, product_candidates, sem, wpc, wurl,
           fetchCount, extracted, dups, result>>
bvars == <<beePc, visited, bee_to_visit, product_urls, bee_url, attempt, response, gets,
           beeFetched, outcomes, waits, beeExtracted, extractedPages, beeExtractCalls,
           beeResult>>
hvars == <<fh_pc, fh_max_retries, fh_attempt, fh_outcomes, fh_waits, fh_result>>
cvars == <<cl_pc, cl_url, cl_keywords, cl_is_product, cl_looks_like>>
args == <<base_url, max_pages, concurrency, run>>
vars == <<args, qvars, bvars, hvars, cvars>>

Workers == 1..MaxConcurrency
NoUrl == MkUrl(NoText, NoText)

\* What fetch returns: the page's anchors, or None (crawl.py 242-267).
FetchResults ==
    {[ok |-> FALSE, html |-> {}]} \cup {[ok |-> TRUE, html |-> h] : h \in SUBSET Hrefs}

(***************************************************************************)
(* The queue-based crawl.                                                  *)
(***************************************************************************)
\* A Response of the page fetcher; NoResponse is Python's None.
NoResponse == [isNone |-> TRUE, raised |-> FALSE, status_code |-> 0, ok |-> FALSE, html |-> {}]

\* crawl.py 21-23: the state crawl_with_scrapingbee starts its loop in.
BeeIdle ==
    /\ beePc = "loop"
    /\ visited = {}
    /\ bee_to_visit = {base_url}
    /\ product_urls = {}
    /\ bee_url = NoUrl
    /\ attempt = 0
    /\ response = NoResponse
    /\ gets = 0
    /\ beeFetched = {}
    /\ outcomes = <<>>
    /\ waits = <<>>
    /\ beeExtracted = {}
    /\ extractedPages = {}
    /\ beeExtractCalls = {}
    /\ beeResult = {}

\* fetch_html_with_scrapingbee before its loop, but for max_retries.
FetchHtmlIdle ==
    /\ fh_pc = "attempt"
    /\ fh_attempt = 0
    /\ fh_outcomes = <<>>
    /\ fh_waits = <<>>
    /\ fh_result = {}

\* No classifier was called.
ClassifyIdle ==
    /\ cl_pc = "input"
    /\ cl_is_product = FALSE
    /\ cl_looks_like = FALSE

\* crawl.py 270-273, before the queue is seeded.
QueueIdle ==
    /\ mainPc = "init"
    /\ seen = {}
    /\ to_visit = <<>>
    /\ unfinished = 0
    /\ product_candidates = {}
    /\ sem = 0
    /\ wpc = [w \in Workers |-> "none"]
    /\ wurl = [w \in Workers |-> NoUrl]
    /\ fetchCount = [u \in Universe |-> 0]
    /\ extracted = {}
    /\ dups = {}
    /\ result = {}

\* The arguments of the functions that are not the one called.
NoFetchHtml == fh_max_retries = 0 /\ FetchHtmlIdle
NoClassify == cl_url = NoUrl /\ cl_keywords = {} /\ ClassifyIdle

InitQ ==
    /\ run = "crawl"
    /\ base_url \in Seeds
    /\ max_pages \in 0..MaxPagesBound
    /\ concurrency \in 1..MaxConcurrency
    /\ BeeIdle
    /\ QueueIdle
    /\ NoFetchHtml
    /\ NoClassify

\* Queue.task_done
TaskDone(n) == n - 1

\* crawl.py 284: the URL was taken before
MutAlreadySeenNever(url, s) == FALSE
AlreadySeen(url, s) == url \in s

\* crawl.py 289: the URL is outside the allowed domains
MutOffDomainNever(url, domains) == FALSE
OffDomain(url, domains) == ~is_same_domain(url, domains)

\* crawl.py 303: the page budget is reached
MutBudgetOffByOne(s, budget) == Cardinality(s) >= budget - 1
MutBudgetNeverReached(s, budget) == FALSE
BudgetReached(s, budget) == Cardinality(s) >= budget

\* crawl.py 94-95 (and 299 of the queue-based crawl): a found product link is
\* added to the set of product links.
MutRecordProductsOverwrites(old, found) == found
RecordProducts(old, found) == old \cup found

\* crawl.py 306: the workers created for this concurrency
MutIsCreatedOneMore(w, n) == w <= n + 1
IsCreated(w, n) == w <= n

\* crawl.py 307: to_visit.join() returns when no put is without its task_done
MutJoinDoneOnEmptyQueue(n, q) == q = <<>>
JoinDone(n, q) == n = 0

\* crawl.py 297: the links of a page that are put on the queue
NewLinks(links, s, domains) == {l \in links : l \notin s /\ is_same_domain(l, domains)}

\* crawl.py 270-276 and 306: seed the queue, create the workers, wait on join.
Start ==
    /\ UNCHANGED <<bvars, hvars, cvars>>
    /\ mainPc = "init"
    /\ to_visit' = <<base_url>>
    /\ unfinished' = 1
    /\ sem' = concurrency
    /\ wpc' = [w \in Workers |-> IF IsCreated(w, concurrency) THEN "get" ELSE "none"]
    /\ mainPc' = "join"
    /\ UNCHANGED <<args, seen, product_candidates, wurl, fetchCount, extracted, dups,
                   result>>

\* crawl.py 281-294: take a URL; skip it, or mark it seen and call fetch.
Get(w) ==
    /\ UNCHANGED <<bvars, hvars, cvars>>
    /\ wpc[w] = "get"
    /\ to_visit # <<>>
    /\ LET url == Head(to_visit) IN
        /\ to_visit' = Tail(to_visit)
        /\ IF AlreadySeen(url, seen)
           THEN /\ unfinished' = TaskDone(unfinished)
                /\ dups' = dups \cup {url}
                /\ UNCHANGED <<seen, wpc, wurl, sem, fetchCount>>
           ELSE /\ seen' = seen \cup {url}
                /\ UNCHANGED dups
                /\ IF OffDomain(url, allowed_domains)
                   THEN /\ unfinished' = TaskDone(unfinished)
                        /\ UNCHANGED <<wpc, wurl, sem, fetchCount>>
                   ELSE /\ sem' = sem - 1
                        /\ wpc' = [wpc EXCEPT ![w] = "fetch"]
                        /\ wurl' = [wurl EXCEPT ![w] = url]
                        /\ fetchCount' = [fetchCount EXCEPT ![url] = @ + 1]
                        /\ UNCHANGED unfinished
    /\ UNCHANGED <<args, mainPc, product_candidates, extracted, result>>

\* crawl.py 294-304: fetch returns; put the new links, task_done, budget check.
FetchReturn(w) ==
    /\ UNCHANGED <<bvars, hvars, cvars>>
    /\ wpc[w] = "fetch"
    /\ \E r \in FetchResults :
        LET links == IF r.ok THEN _extract_links(wurl[w], r.html) ELSE {}
            new == NewLinks(links, seen, allowed_domains)
        IN /\ extracted' = extracted \cup links
           /\ product_candidates' = RecordProducts(product_candidates,
                  {l \in new : _looks_like_product_url(l, keywords)})
           /\ \E order \in OrdersOf(new) : to_visit' = to_visit \o order
           /\ unfinished' = TaskDone(unfinished + Cardinality(new))
    /\ sem' = sem + 1
    /\ wurl' = [wurl EXCEPT ![w] = NoUrl]
    /\ wpc' = [wpc EXCEPT ![w] = IF BudgetReached(seen, max_pages) THEN "done" ELSE "get"]
    /\ UNCHANGED <<args, mainPc, seen, fetchCount, dups, result>>

\* crawl.py 307-310: join returns when nothing is unfinished; cancel; return.
JoinReturn ==
    /\ UNCHANGED <<bvars, hvars, cvars>>
    /\ mainPc = "join"
    /\ JoinDone(unfinished, to_visit)
    /\ mainPc' = "returned"
    /\ wpc' = [w \in Workers |-> IF wpc[w] \in {"get", "fetch"} THEN "cancelled" ELSE wpc[w]]
    /\ result' = product_candidates
    /\ UNCHANGED <<args, seen, to_visit, unfinished, product_candidates, sem, wurl,
                   fetchCount, extracted, dups>>

NextQ ==
    \/ Start
    \/ \E w \in Workers : Get(w)
    \/ \E w \in Workers : FetchReturn(w)
    \/ JoinReturn

QueueSpec == InitQ /\ [][NextQ]_vars

FairQueueSpec ==
    /\ QueueSpec
    /\ WF_vars(Start)
    /\ WF_vars(JoinReturn)
    /\ \A w \in Workers : WF_vars(Get(w)) /\ WF_vars(FetchReturn(w))

(***************************************************************************)
(* crawl_with_scrapingbee.                                                 *)
(***************************************************************************)
\* crawl.py 35
max_retries == 3

\* What scrapingbee_client.get returns: a page, a 503, another error status.
Responses ==
    {[isNone |-> FALSE, raised |-> FALSE, status_code |-> 200, ok |-> TRUE, html |-> h] : h \in SUBSET Hrefs}
    \cup {[isNone |-> FALSE, raised |-> FALSE, status_code |-> 503, ok |-> FALSE, html |-> {}],
          [isNone |-> FALSE, raised |-> FALSE, status_code |-> 404, ok |-> FALSE, html |-> {}]}

\* An outcome of a call of get: a response, or an exception raised by it.
Raised == [isNone |-> TRUE, raised |-> TRUE, status_code |-> 0, ok |-> FALSE, html |-> {}]
Outcomes == Responses \cup {Raised}

\* The outcome classes: "ok", "503", "other", "exc".
KindOf(o) ==
    IF o.raised THEN "exc"
    ELSE IF o.ok THEN "ok"
    ELSE IF o.status_code = 503 THEN "503"
    ELSE "other"

\* crawl.py 25: the main loop's condition
MutLoopCondInclusive(toVisit, vis, budget) == toVisit # {} /\ Cardinality(vis) <= budget
LoopCond(toVisit, vis, budget) == toVisit # {} /\ Cardinality(vis) < budget

\* crawl.py 56-71: after this outcome of attempt number `att`, does the retry
\* loop sleep and go on to another attempt?
MutRetriesOtherStatus(kind, att) ==
    CASE kind = "ok" -> FALSE
      [] kind = "503" -> att < max_retries - 1
      [] kind = "other" -> att # max_retries - 1
      [] kind = "exc" -> att # max_retries - 1
MutRetries503Once(kind, att) ==
    CASE kind = "ok" -> FALSE
      [] kind = "503" -> att < max_retries - 2
      [] kind = "other" -> FALSE
      [] kind = "exc" -> att # max_retries - 1
Retries(kind, att) ==
    CASE kind = "ok" -> FALSE
      [] kind = "503" -> att < max_retries - 1
      [] kind = "other" -> FALSE
      [] kind = "exc" -> att # max_retries - 1

\* crawl.py 60 and 71: the sleep before the next attempt
WaitTime(kind, att) == IF kind = "503" THEN (2 ^ att) + 3 ELSE 2 ^ att

\* crawl.py 81-84: the links kept by the domain filter
BeeAllowed(link, domains) == \E d \in domains : IsSubstring(d, link.netloc)

\* crawl.py 100: the links added to to_visit
MutToAddIgnoresBudget(links, vis, toVisit, budget) ==
    {l \in links : l \notin vis /\ l \notin toVisit}
MutToAddIgnoresVisited(links, vis, toVisit, budget) ==
    {l \in links : Cardinality(vis) < budget /\ l \notin toVisit}
ToAdd(links, vis, toVisit, budget) ==
    {l \in links : Cardinality(vis) < budget /\ l \notin vis /\ l \notin toVisit}

InitBee ==
    /\ run = "crawl_with_scrapingbee"
    /\ base_url \in Seeds
    /\ max_pages \in 0..MaxPagesBound
    /\ concurrency = 1
    /\ BeeIdle
    /\ QueueIdle
    /\ NoFetchHtml
    /\ NoClassify

\* crawl.py 25-36: pop a URL, mark it visited, enter the retry loop.
BeePop ==
    /\ beePc = "loop"
    /\ LoopCond(bee_to_visit, visited, max_pages)
    /\ \E u \in bee_to_visit :
        /\ bee_to_visit' = bee_to_visit \ {u}
        /\ IF u \notin visited
           THEN /\ visited' = visited \cup {u}
                /\ bee_url' = u
                /\ attempt' = 0
                /\ response' = NoResponse
                /\ outcomes' = <<>>
                /\ waits' = <<>>
                /\ beePc' = "attempt"
           ELSE UNCHANGED <<visited, bee_url, attempt, response, outcomes, waits, beePc>>
    /\ UNCHANGED <<product_urls, gets, beeFetched, beeExtracted, extractedPages,
                   beeExtractCalls, beeResult>>
    /\ UNCHANGED <<args, qvars, hvars, cvars>>

\* crawl.py 38-71: one attempt of the retry loop, with the sleep that follows.
BeeAttempt ==
    /\ beePc = "attempt"
    /\ \E o \in Outcomes :
        LET kind == KindOf(o) IN
        /\ gets' = gets + 1
        /\ beeFetched' = beeFetched \cup {bee_url}
        /\ outcomes' = Append(outcomes, kind)
        /\ response' = IF kind = "exc" THEN response ELSE o
        /\ IF Retries(kind, attempt)
           THEN /\ waits' = Append(waits, WaitTime(kind, attempt))
                /\ attempt' = attempt + 1
                /\ beePc' = IF attempt + 1 < max_retries THEN "attempt" ELSE "after"
           ELSE /\ beePc' = "after"
                /\ UNCHANGED <<waits, attempt>>
    /\ UNCHANGED <<visited, bee_to_visit, product_urls, bee_url, beeExtracted,
                   extractedPages, beeExtractCalls, beeResult>>
    /\ UNCHANGED <<args, qvars, hvars, cvars>>

\* crawl.py 31 and 117-118: where control is after the page's body raised: the
\* outer handler prints and the main loop goes on ("raised" would be the
\* exception leaving crawl_with_scrapingbee).
MutOuterExceptReraises == "raised"
OuterExcept == "loop"

\* crawl.py 73-118: the page after its retry loop.  With response still None
\* (every attempt raised) the read of response.ok at line 73 raises.
BeeAfter ==
    /\ beePc = "after"
    /\ IF response.isNone
       THEN /\ beePc' = OuterExcept
            /\ UNCHANGED <<beeExtracted, extractedPages, beeExtractCalls, product_urls,
                           bee_to_visit>>
       ELSE /\ beePc' = "loop"
            /\ IF response.ok
               THEN LET links == _extract_links(base_url, response.html)
                        filtered_links == {l \in links : BeeAllowed(l, allowed_domains)}
                    IN /\ beeExtracted' = beeExtracted \cup links
                       /\ extractedPages' = extractedPages \cup {bee_url}
                       /\ beeExtractCalls' = beeExtractCalls \cup {<<base_url, bee_url>>}
                       /\ product_urls' = RecordProducts(product_urls,
                              {l \in filtered_links : _is_product_url(l, keywords)})
                       /\ bee_to_visit' = bee_to_visit \cup
                              ToAdd(filtered_links, visited, bee_to_visit, max_pages)
               ELSE UNCHANGED <<beeExtracted, extractedPages, beeExtractCalls, product_urls,
                               bee_to_visit>>
    /\ UNCHANGED <<visited, bee_url, attempt, response, gets, beeFetched, outcomes, waits,
                   beeResult>>
    /\ UNCHANGED <<args, qvars, hvars, cvars>>

\* crawl.py 25 and 120-125: the loop ends; return list(product_urls).
BeeReturn ==
    /\ beePc = "loop"
    /\ ~LoopCond(bee_to_visit, visited, max_pages)
    /\ beePc' = "done"
    /\ beeResult' = product_urls
    /\ UNCHANGED <<visited, bee_to_visit, product_urls, bee_url, attempt, response, gets,
                   beeFetched, outcomes, waits, beeExtracted, extractedPages,
                   beeExtractCalls>>
    /\ UNCHANGED <<args, qvars, hvars, cvars>>

NextBee ==
    \/ BeePop
    \/ BeeAttempt
    \/ BeeAfter
    \/ BeeReturn

BeeSpec == InitBee /\ [][NextBee]_vars

(***************************************************************************)
(* fetch_html_with_scrapingbee (main.py 16-58).                            *)
(***************************************************************************)
\* main.py 38-58: after this outcome of attempt number `att` of `r`, does the
\* loop sleep and go on to another attempt?  The raise of line 49 is inside
\* the try of line 19, so the handler of line 51 receives it like an
\* exception of client.get.
MutFhRetries503Always(kind, att, r) ==
    CASE kind = "ok" -> FALSE
      [] kind = "503" -> att < r
      [] kind = "other" -> att # r - 1
      [] kind = "exc" -> att # r - 1
FhRetries(kind, att, r) ==
    CASE kind = "ok" -> FALSE
      [] kind = "503" -> att < r - 1
      [] kind = "other" -> att # r - 1
      [] kind = "exc" -> att # r - 1

\* main.py 16: the default of max_retries
DefaultMaxRetries == 3

\* main.py 42 and 55: the sleep before the next attempt
MutFhWaitTimeNoFloor(kind, att) == 2 ^ att
FhWaitTime(kind, att) == IF kind = "503" THEN (2 ^ att) + 5 ELSE 2 ^ att

InitFh ==
    /\ run = "fetch_html"
    /\ base_url = ShopRoot
    /\ max_pages = 0
    /\ concurrency = 1
    /\ BeeIdle
    /\ QueueIdle
    /\ fh_max_retries \in 0..MaxRetriesBound
    /\ FetchHtmlIdle
    /\ NoClassify

\* main.py 18-58: one attempt, with the sleep that follows it.
FhAttempt ==
    /\ fh_pc = "attempt"
    /\ fh_attempt < fh_max_retries
    /\ \E o \in Outcomes :
        LET kind == KindOf(o) IN
        /\ fh_outcomes' = Append(fh_outcomes, kind)
        /\ IF kind = "ok"
           THEN /\ fh_pc' = "returned"
                /\ fh_result' = o.html
                /\ UNCHANGED <<fh_waits, fh_attempt>>
           ELSE IF FhRetries(kind, fh_attempt, fh_max_retries)
           THEN /\ fh_waits' = Append(fh_waits, FhWaitTime(kind, fh_attempt))
                /\ fh_attempt' = fh_attempt + 1
                /\ UNCHANGED <<fh_pc, fh_result>>
           ELSE /\ fh_pc' = "raised"
                /\ UNCHANGED <<fh_waits, fh_attempt, fh_result>>
    /\ UNCHANGED fh_max_retries
    /\ UNCHANGED <<args, qvars, bvars, cvars>>

\* main.py 18: range(max_retries) is exhausted and the function ends without
\* a return statement, which returns None.
FhFallOut ==
    /\ fh_pc = "attempt"
    /\ fh_attempt >= fh_max_retries
    /\ fh_pc' = "none_returned"
    /\ UNCHANGED <<fh_max_retries, fh_attempt, fh_outcomes, fh_waits, fh_result>>
    /\ UNCHANGED <<args, qvars, bvars, cvars>>

NextFh ==
    \/ FhAttempt
    \/ FhFallOut

FetchHtmlSpec == InitFh /\ [][NextFh]_vars

(***************************************************************************)
(* The classifiers _is_product_url and _looks_like_product_url.            *)
(***************************************************************************)
InitClassify ==
    /\ run = "classify"
    /\ base_url = ShopRoot
    /\ max_pages = 0
    /\ concurrency = 1
    /\ BeeIdle
    /\ QueueIdle
    /\ NoFetchHtml
    /\ cl_url \in ClassifyUrls
    /\ cl_keywords \in SUBSET ClassifyKeywords
    /\ ClassifyIdle

\* crawl.py 213-216 and 238-240: both classifiers are called on the input.
Classify ==
    /\ cl_pc = "input"
    /\ cl_is_product' = _is_product_url(cl_url, cl_keywords)
    /\ cl_looks_like' = _looks_like_product_url(cl_url, cl_keywords)
    /\ cl_pc' = "done"
    /\ UNCHANGED <<cl_url, cl_keywords>>
    /\ UNCHANGED <<args, qvars, bvars, hvars>>

ClassifySpec == InitClassify /\ [][Classify]_vars

\* A run of one of the two crawls.
NextEither ==
    \/ run = "crawl" /\ NextQ
    \/ run = "crawl_with_scrapingbee" /\ NextBee

EitherSpec == (InitQ \/ InitBee) /\ [][NextEither]_vars

\* A run of one of the two retry loops.
NextRetryLoops ==
    \/ run = "crawl_with_scrapingbee" /\ NextBee
    \/ run = "fetch_html" /\ NextFh

RetryLoopsSpec == (InitBee \/ InitFh) /\ [][NextRetryLoops]_vars

(***************************************************************************)
(* Properties of the queue-based crawl.                                    *)
(***************************************************************************)
RECURSIVE SumOver(_, _)
SumOver(f, S) ==
    IF S = {} THEN 0
    ELSE LET x == CHOOSE y \in S : TRUE IN f[x] + SumOver(f, S \ {x})

\* The number of calls of fetch made so far.
TotalFetches == SumOver(fetchCount, Universe)

InDomain(S) == {u \in S : is_same_domain(u, allowed_domains)}

\* C1: fetch is called at most once per distinct URL, however often the URL
\* was put on the queue, and a URL is in `seen` before fetch is called on it.
C1_NoDuplicateFetch ==
    /\ \A u \in Universe : fetchCount[u] <= 1 /\ (fetchCount[u] >= 1 => u \in seen)
    /\ \A w \in Workers : wpc[w] = "fetch" => wurl[w] \in seen

\* C1 witness: a URL that was queued again was fetched once, its second copy
\* dropped at the queue, and the run returned.
C1_Witness ==
    /\ mainPc = "returned"
    /\ \E u \in dups : fetchCount[u] = 1

\* C2: with a budget of at least one page, the number of calls of fetch never
\* exceeds max_pages.
C2_FetchesWithinBudget ==
    max_pages >= 1 => TotalFetches <= max_pages

\* C3: under fair scheduling, once the page budget is reached the coordinator
\* eventually returns.
C3_ReturnsOnBudget ==
    (max_pages >= 1 /\ BudgetReached(seen, max_pages)) ~> (mainPc = "returned")

\* C4: under fair scheduling the crawl returns unless the in-domain URLs it
\* took from the queue reach max_pages; those URLs are all reachable from the
\* seed, so a reachable set smaller than max_pages always ends in a return.
C4_DrainTermination ==
    <>(mainPc = "returned" \/ Cardinality(InDomain(seen)) >= max_pages)

\* C4 witness: a run over several pages that stayed below the budget returned.
C4_Witness ==
    /\ mainPc = "returned"
    /\ Cardinality(seen) >= 3
    /\ Cardinality(seen) < max_pages

\* C5: a URL outside the allowed domains is never passed to fetch and is never
\* a product candidate, in any state and in the returned list.
C5_DomainContainment ==
    \A u \in Universe :
        ~is_same_domain(u, allowed_domains) =>
            /\ fetchCount[u] = 0
            /\ u \notin product_candidates
            /\ u \notin result

\* C5 witness: a fetched page linked to an off-domain product URL and the run
\* returned.
C5_Witness ==
    /\ mainPc = "returned"
    /\ \E u \in extracted :
        ~is_same_domain(u, allowed_domains) /\ _looks_like_product_url(u, keywords)

(***************************************************************************)
(* Properties of crawl_with_scrapingbee.                                   *)
(***************************************************************************)
\* The product links among the links extracted so far, as the crawl records them.
ProductLinks(links) ==
    {l \in links : BeeAllowed(l, allowed_domains) /\ _is_product_url(l, keywords)}

\* C6: every URL passed to scrapingbee_client.get, the seed included, has a
\* host that matches one of allowed_domains.
C6_FetchedAreAllowed ==
    \A u \in beeFetched : BeeAllowed(u, allowed_domains)

C7_State ==
    /\ Cardinality(visited) <= max_pages
    /\ beeFetched \subseteq visited
    /\ (beePc = "done" /\ max_pages = 1) =>
        /\ beeFetched = {base_url}
        /\ beeResult = ProductLinks(beeExtracted)

C7_Step ==
    Cardinality(visited) = max_pages =>
        /\ bee_to_visit' \subseteq bee_to_visit
        /\ visited' = visited
        /\ beeFetched' \subseteq visited

\* C7: len(visited) never exceeds max_pages; once it equals max_pages no link
\* is added to to_visit and no page other than the visited ones is fetched;
\* with max_pages = 1 only the seed is fetched and the result is the product
\* links of the seed page.
C7_PageBudget == []C7_State /\ [][C7_Step]_vars

\* C7 witness: a run with max_pages = 1 returned a product found on the seed
\* page, which also linked to an allowed page that was never visited.
C7_Witness ==
    /\ beePc = "done"
    /\ max_pages = 1
    /\ beeResult # {}
    /\ \E l \in beeExtracted : BeeAllowed(l, allowed_domains) /\ l \notin visited

\* C8 as stated: the calls of scrapingbee_client.get, retries included, never
\* exceed max_pages.
C8_AttemptsWithinPages == gets <= max_pages

\* C8 as amended: the calls of get never exceed max_retries * max_pages, and
\* the pages they are made for never exceed max_pages.
C8_AttemptsWithinRetries ==
    /\ gets <= max_retries * max_pages
    /\ Cardinality(beeFetched) <= max_pages

\* C8 witness: a finished run that spent all three attempts on each of at
\* least two pages.
C8_Witness ==
    /\ beePc = "done"
    /\ max_pages >= 2
    /\ gets = max_retries * max_pages

C10_OtherStatusIsTerminal ==
    \A i \in 1..Len(outcomes) :
        outcomes[i] = "other" =>
            /\ i = Len(outcomes)
            /\ beePc # "attempt"
            /\ Len(waits) = i - 1
            /\ bee_url \notin extractedPages

\* C10 witness: a 503 and then a 404: the page is left after two attempts
\* and one sleep.
C10_Witness ==
    /\ beePc = "loop"
    /\ outcomes = <<"503", "other">>
    /\ Len(waits) = 1
    /\ bee_url \notin extractedPages

(***************************************************************************)
(* Properties of fetch_html_with_scrapingbee and of the retry waits.       *)
(***************************************************************************)
\* C11: in fetch_html_with_scrapingbee a response whose status is neither 2xx
\* nor 503 ends the call: it is the last outcome of client.get and the
\* function has raised.
C11_FhOtherStatusIsTerminal ==
    \A i \in 1..Len(fh_outcomes) :
        fh_outcomes[i] = "other" => (i = Len(fh_outcomes) /\ fh_pc = "raised")

\* C12: in both retry loops, at every attempt index 0..max_retries-2, the wait
\* after a 503 is greater than the wait after an exception of get; the wait
\* after an exception is 1 at index 0 and doubles with each attempt; and the
\* sleeps of a run are these waits.
C12_WaitOrder ==
    /\ \A a \in 0..(max_retries - 2) :
        /\ WaitTime("503", a) > WaitTime("exc", a)
        /\ WaitTime("exc", a) = (IF a = 0 THEN 1 ELSE 2 * WaitTime("exc", a - 1))
    /\ \A a \in 0..(fh_max_retries - 2) :
        /\ FhWaitTime("503", a) > FhWaitTime("exc", a)
        /\ FhWaitTime("exc", a) = (IF a = 0 THEN 1 ELSE 2 * FhWaitTime("exc", a - 1))
    /\ \A i \in 1..Len(waits) :
        /\ outcomes[i] = "503" => waits[i] > 2 ^ (i - 1)
        /\ outcomes[i] = "exc" => waits[i] = 2 ^ (i - 1)
    /\ \A i \in 1..Len(fh_waits) :
        /\ fh_outcomes[i] = "503" => fh_waits[i] > 2 ^ (i - 1)
        /\ fh_outcomes[i] = "exc" => fh_waits[i] = 2 ^ (i - 1)

\* fetch_html_with_scrapingbee slept 6 s after a 503 at index 0 and 2 s after
\* an exception at index 1.
C12_Witness ==
    /\ run = "fetch_html"
    /\ fh_outcomes = <<"503", "exc">>
    /\ fh_waits = <<6, 2>>

(***************************************************************************)
(* More properties of crawl_with_scrapingbee.                              *)
(***************************************************************************)
\* C13: whatever the outcomes of a page's attempts, no exception leaves
\* crawl_with_scrapingbee: until it has returned it can take a step (the main
\* loop goes on to the URLs left in to_visit, or ends), and what it returns
\* is the set of product URLs collected.
C13_FailureContained ==
    /\ beePc \in {"loop", "attempt", "after", "done"}
    /\ beePc # "done" => ENABLED NextBee
    /\ (beePc = "loop" /\ LoopCond(bee_to_visit, visited, max_pages)) => ENABLED BeePop
    /\ beePc = "done" => beeResult = product_urls

\* All three attempts of a page raised, response is None, the page is over,
\* and the loop stands before the URLs left, with a product URL collected.
C13_Witness ==
    /\ beePc = "loop"
    /\ outcomes = <<"exc", "exc", "exc">>
    /\ response.isNone
    /\ product_urls # {}
    /\ bee_to_visit # {}
    /\ LoopCond(bee_to_visit, visited, max_pages)

(***************************************************************************)
(* More properties of the queue-based crawl.                               *)
(***************************************************************************)
\* C14: when the queue-based crawl returns with the budget not reached, its
\* result is exactly the set of links extracted from a fetched page that are
\* in the allowed domains and have a keyword in their path, whether or not
\* the link was in `seen` when it was found.
C14_DrainedResultExact ==
    (mainPc = "returned" /\ Cardinality(seen) < max_pages)
        => result = {l \in extracted : /\ is_same_domain(l, allowed_domains)
                                       /\ _looks_like_product_url(l, keywords)}

(***************************************************************************)
(* Properties of the classifiers.                                          *)
(***************************************************************************)
\* C15: _is_product_url accepts a URL exactly when some keyword, compared
\* without regard to letter case, is a substring of the URL's path; the host
\* and the query string do not count.
C15_IsProductIffKeywordInPath ==
    cl_pc = "done" =>
        (cl_is_product <=> \E k \in cl_keywords : IsSubstring(Lower(k), Lower(cl_url.path)))

(***************************************************************************)
(* Workers, the join and the candidate sets.                               *)
(***************************************************************************)
\* The workers inside `async with sem: await fetch(...)`.
InFetch == {w \in Workers : wpc[w] = "fetch"}

C16_State ==
    /\ Cardinality(InFetch) <= concurrency
    /\ sem >= 0
    /\ mainPc = "init" => \A w \in Workers : wpc[w] = "none"
    /\ mainPc # "init" => /\ Cardinality({w \in Workers : wpc[w] # "none"}) = concurrency
                          /\ sem = concurrency - Cardinality(InFetch)

C16_Step ==
    TotalFetches' # TotalFetches =>
        /\ TotalFetches' = TotalFetches + 1
        /\ \E w \in Workers : wpc[w] = "get" /\ wpc'[w] = "fetch"

\* C16: in the queue-based crawl the workers inside fetch are never more than
\* `concurrency`, the worker tasks created are exactly `concurrency`, and a
\* fetch is only ever started by a worker that has just taken a URL.
C16_WorkerBound == []C16_State /\ [][C16_Step]_vars

\* Two workers are inside fetch at once.
C16_Witness ==
    /\ run = "crawl"
    /\ concurrency = 2
    /\ Cardinality(InFetch) = 2

C17_State ==
    /\ mainPc = "returned" => result = product_candidates
    /\ beePc = "done" => beeResult = product_urls

C17_Step ==
    /\ product_candidates \subseteq product_candidates'
    /\ product_urls \subseteq product_urls'

\* C17: in both crawls every step leaves the set of product links a superset
\* of what it was, and the returned list is that set, so a recorded product
\* URL is returned whatever happens to it later.
C17_CandidatesOnlyGrow == []C17_State /\ [][C17_Step]_vars

\* crawl_with_scrapingbee returned a product URL that it visited later and
\* whose own page it never got.
C17_Witness ==
    /\ beePc = "done"
    /\ ShopProd \in beeResult
    /\ ShopProd \in visited
    /\ ShopProd \notin extractedPages
    /\ Cardinality(extractedPages) >= 2

C18_State ==
    /\ mainPc # "init" => unfinished = Len(to_visit) + Cardinality(InFetch)
    /\ (mainPc = "join" /\ InFetch # {}) => ~ENABLED JoinReturn

C18_Step ==
    (mainPc = "join" /\ mainPc' = "returned") => (to_visit = <<>> /\ InFetch = {})

\* C18: the coordinator passes join and returns only when the queue is empty
\* and no worker is between a get and its task_done; while a worker is still
\* inside a page the coordinator cannot return, empty queue or not.
C18_ReturnsOnlyDrained == []C18_State /\ [][C18_Step]_vars

\* The crawl returned after two pages: after the first get the queue was
\* empty while the worker was inside the seed's page.
C18_Witness ==
    /\ mainPc = "returned"
    /\ TotalFetches >= 2
    /\ to_visit = <<>>

\* C20: with max_pages >= 1 the size of `seen`, and the number of fetches,
\* never exceed max_pages + concurrency - 1.
C20_SeenBound ==
    (run = "crawl" /\ max_pages >= 1) =>
        /\ Cardinality(seen) <= max_pages + concurrency - 1
        /\ TotalFetches <= max_pages + concurrency - 1

\* The bound is met: with two workers `seen` is one above the budget.
C20_Witness ==
    /\ run = "crawl"
    /\ max_pages >= 1
    /\ concurrency = 2
    /\ Cardinality(seen) = max_pages + concurrency - 1
    /\ TotalFetches = max_pages + concurrency - 1

(***************************************************************************)
(* The link extractor's base in crawl_with_scrapingbee.                    *)
(***************************************************************************)
\* C19: every call of the link extractor in crawl_with_scrapingbee has for
\* its base argument the URL of the page whose HTML it parses.
C19_ExtractorBaseIsPage ==
    \A c \in beeExtractCalls : c[1] = c[2]

(***************************************************************************)
(* The ends of fetch_html_with_scrapingbee.                                *)
(***************************************************************************)
\* C21: with max_retries = 3, fetch_html_with_scrapingbee never leaves its
\* loop without a return or a raise (so never returns None): while it runs
\* another attempt is due, it returns only on an ok response, raises only on
\* an outcome that is not ok, and client.get is called at most 3 times.
C21_FhReturnsBodyOrRaises ==
    fh_max_retries = DefaultMaxRetries =>
        /\ fh_pc \in {"attempt", "returned", "raised"}
        /\ Len(fh_outcomes) <= DefaultMaxRetries
        /\ fh_pc = "attempt" => (ENABLED FhAttempt /\ ~ENABLED FhFallOut)
        /\ fh_pc = "returned" => fh_outcomes[Len(fh_outcomes)] = "ok"
        /\ fh_pc = "raised" => fh_outcomes[Len(fh_outcomes)] \in {"503", "other", "exc"}
        /\ \A i \in 1..(Len(fh_outcomes) - 1) : fh_outcomes[i] # "ok"

\* Three 503 responses: the third call of client.get is the last and the
\* function has raised.
C21_Witness ==
    /\ run = "fetch_html"
    /\ fh_max_retries = DefaultMaxRetries
    /\ fh_outcomes = <<"503", "503", "503">>
    /\ fh_pc = "raised"

(***************************************************************************)
(* to_visit and visited in crawl_with_scrapingbee.                         *)
(***************************************************************************)
C22_State == bee_to_visit \cap visited = {}

C22_Step ==
    /\ (bee_to_visit' \ bee_to_visit) \cap visited' = {}
    /\ (beePc = "loop" /\ bee_to_visit' # bee_to_visit) =>
           \E u \in bee_to_visit \ visited :
               /\ bee_to_visit' = bee_to_visit \ {u}
               /\ bee_url' = u
               /\ beePc' = "attempt"

\* C22: in crawl_with_scrapingbee to_visit and visited are disjoint, so the
\* URL popped by the main loop is never a visited one and always goes to its
\* retry loop, and no step adds a visited URL to to_visit.
C22_ToVisitDisjointVisited == []C22_State /\ [][C22_Step]_vars

\* The seed's page was read, it links to itself and to other pages, and the
\* loop stands before the URLs it added.
C22_Witness ==
    /\ run = "crawl_with_scrapingbee"
    /\ beePc = "loop"
    /\ extractedPages = {base_url}
    /\ base_url \in beeExtracted
    /\ base_url \in visited
    /\ bee_to_visit # {}
====
